---------------------------- MODULE Spec2Model ----------------------------
(***************************************************************************)
(* A model of src/vs/platform/environment/node/environmentService.ts:      *)
(* the EnvironmentService (memoized getters over parsed arguments and the   *)
(* process environment, the machine identity read or created by the         *)
(* constructor) and the functions it is built from (parseDebugPort,         *)
(* parsePathArg, parseUserDataDir, getIPCHandle).                           *)
(*                                                                         *)
(* Strings are sequences of one-character strings, so that concatenation,  *)
(* splitting on "/" and conversion to numbers are computed, not assumed.    *)
(* `undefined` (and `null`, where a string is expected) is the sentinel     *)
(* Undefined, which is no sequence of characters.  Paths follow the POSIX   *)
(* flavour of node's path module on every platform.                        *)
(***************************************************************************)
EXTENDS Integers, Sequences, FiniteSets, TLC

VARIABLES
    platform,     \* process.platform
    env,          \* process.env
    cwd,          \* process.cwd()
    files,        \* the file system: content of each machineid file
    readFault,    \* the storage fails reads (permission error, I/O error)
    writeFault,   \* the storage fails writes
    args,         \* EnvironmentService._args
    status,       \* "none" | "constructed" | "threw": how the last construction ended
    machineUUID,  \* EnvironmentService.machineUUID
    cache,        \* the values the memoized getters hold
    last,         \* the last property read, the value it returned, whether it
                  \* had been read before, and the process state at the read
    runs,         \* constructions so far (process runs)
    steps,        \* property reads and environment changes since construction
    ctor,         \* what the last construction saw and did; ctor.intact: the
                  \* file it left holds an identity and nothing has touched
                  \* the file or the storage since
    firstVal,     \* history: the value each property returned first
    firstProc,    \* history: the process state at each property's first read
    call,         \* a direct call of an exported function: its inputs
    ret           \* ... and what it returned

vars == <<platform, env, cwd, files, readFault, writeFault, args, status,
          machineUUID, cache, last, runs, steps, ctor,
          firstVal, firstProc, call, ret>>

-----------------------------------------------------------------------------
(* Bounds of the model. *)

\* longest debug-port argument
MaxPortLen == 2
\* longest path argument
MaxPathLen == 3
\* constructions (process runs) in one behaviour
MaxRuns == 3
\* property reads and environment changes in the life of one instance
MaxSteps == 3

-----------------------------------------------------------------------------
(* Strings. *)

Undefined == <<"undefined">>

\* JavaScript's !x for a string-or-undefined x
Falsy(x) == x = Undefined \/ x = <<>>

\* the strings over an alphabet, up to a length
RECURSIVE StringsUpTo(_, _)
StringsUpTo(chars, n) ==
    IF n = 0 THEN {<<>>}
    ELSE LET shorter == StringsUpTo(chars, n - 1)
         IN  shorter \cup {Append(s, c) : s \in shorter, c \in chars}

DigitValue ==
    [c \in {"0", "1", "2", "3", "4", "5", "6", "7", "8", "9"} |->
        CASE c = "0" -> 0 [] c = "1" -> 1 [] c = "2" -> 2 [] c = "3" -> 3
          [] c = "4" -> 4 [] c = "5" -> 5 [] c = "6" -> 6 [] c = "7" -> 7
          [] c = "8" -> 8 [] c = "9" -> 9]

NaN == -1
Null == -2

RECURSIVE DecimalValue(_)
DecimalValue(s) ==
    IF s = <<>> THEN 0
    ELSE 10 * DecimalValue(SubSeq(s, 1, Len(s) - 1)) + DigitValue[s[Len(s)]]

\* JavaScript's Number(x) on undefined and on strings of digits and letters:
\* undefined is NaN, "" is 0, a string of decimal digits is its value, and
\* a string with any other character is NaN.
Number(x) ==
    IF x = Undefined THEN NaN
    ELSE IF \A i \in 1..Len(x) : x[i] \in DOMAIN DigitValue THEN DecimalValue(x)
    ELSE NaN

-----------------------------------------------------------------------------
(* parseDebugPort and its two call sites. *)

ExtensionHostPort == 5870
SearchPort == 5876

\* a || b for numbers: NaN, 0 and null are falsy
NumOr(a, b) == IF a = NaN \/ a = 0 \/ a = Null THEN b ELSE a

\* the attach argument taking precedence over the break argument
parseDebugPort_attachFirst(debugArg, debugBrkArg, defaultBuildPort, isBuild, debugId) ==
    LET portStr == IF Falsy(debugArg) THEN debugBrkArg ELSE debugArg
        port    == NumOr(Number(portStr), IF ~isBuild THEN defaultBuildPort ELSE Null)
        brk     == IF port # NaN /\ port # 0 /\ port # Null
                   THEN ~Falsy(debugBrkArg) ELSE FALSE
    IN  [port |-> port, break |-> brk, debugId |-> debugId]

\* the break flag taken from the port alone
parseDebugPort_breakOnPort(debugArg, debugBrkArg, defaultBuildPort, isBuild, debugId) ==
    LET portStr == IF Falsy(debugBrkArg) THEN debugArg ELSE debugBrkArg
        port    == NumOr(Number(portStr), IF ~isBuild THEN defaultBuildPort ELSE Null)
        brk     == port # NaN /\ port # 0 /\ port # Null
    IN  [port |-> port, break |-> brk, debugId |-> debugId]

parseDebugPort(debugArg, debugBrkArg, defaultBuildPort, isBuild, debugId) ==
    LET portStr == IF Falsy(debugBrkArg) THEN debugArg ELSE debugBrkArg
        port    == NumOr(Number(portStr), IF ~isBuild THEN defaultBuildPort ELSE Null)
        brk     == IF port # NaN /\ port # 0 /\ port # Null
                   THEN ~Falsy(debugBrkArg) ELSE FALSE
    IN  [port |-> port, break |-> brk, debugId |-> debugId]

parseExtensionHostPort(a, isBuild) ==
    parseDebugPort(a.debugPluginHost, a.debugBrkPluginHost, ExtensionHostPort,
                   isBuild, a.debugId)

parseSearchPort(a, isBuild) ==
    parseDebugPort(a.debugSearch, a.debugBrkSearch, SearchPort, isBuild, Undefined)

-----------------------------------------------------------------------------
(* node's path module (POSIX): normalize, resolve, join. *)

Slash == <<"/">>
Dot == <<".">>
DotDot == <<".", ".">>

IsAbsolute(p) == Len(p) > 0 /\ p[1] = "/"

\* the pieces of a string between its "/" characters
RECURSIVE Split(_)
Split(s) ==
    IF \A i \in 1..Len(s) : s[i] # "/" THEN <<s>>
    ELSE LET i == CHOOSE k \in 1..Len(s) :
                     s[k] = "/" /\ \A j \in 1..(k - 1) : s[j] # "/"
         IN  <<SubSeq(s, 1, i - 1)>> \o Split(SubSeq(s, i + 1, Len(s)))

RECURSIVE JoinWith(_, _)
JoinWith(segs, sep) ==
    IF segs = <<>> THEN <<>>
    ELSE IF Len(segs) = 1 THEN segs[1]
    ELSE segs[1] \o sep \o JoinWith(Tail(segs), sep)

\* normalizeString: drop "" and ".", resolve ".." against the segment before
RECURSIVE NormSegs(_, _, _)
NormSegs(segs, acc, allowAboveRoot) ==
    IF segs = <<>> THEN acc
    ELSE LET h == Head(segs)
             next ==
                 IF h = <<>> \/ h = Dot THEN acc
                 ELSE IF h = DotDot
                 THEN IF acc # <<>> /\ acc[Len(acc)] # DotDot
                      THEN SubSeq(acc, 1, Len(acc) - 1)
                      ELSE IF allowAboveRoot THEN Append(acc, h) ELSE acc
                 ELSE Append(acc, h)
         IN  NormSegs(Tail(segs), next, allowAboveRoot)

normalizeString(p, allowAboveRoot) ==
    JoinWith(NormSegs(Split(p), <<>>, allowAboveRoot), Slash)

\* path.normalize
normalize(p) ==
    IF p = <<>> THEN Dot
    ELSE LET isAbsolute == IsAbsolute(p)
             trailingSeparator == p[Len(p)] = "/"
             n0 == normalizeString(p, ~isAbsolute)
             n1 == IF n0 = <<>> /\ ~isAbsolute THEN Dot ELSE n0
             n2 == IF n1 # <<>> /\ trailingSeparator THEN n1 \o Slash ELSE n1
         IN  IF isAbsolute THEN Slash \o n2 ELSE n2

\* path.resolve(...parts) in a process whose working directory is dir:
\* from the right, prepend parts until one is absolute
RECURSIVE ResolveFrom(_, _, _)
ResolveFrom(parts, dir, acc) ==
    IF IsAbsolute(acc) THEN acc
    ELSE IF parts = <<>> THEN dir \o Slash \o acc
    ELSE LET p == parts[Len(parts)]
             rest == SubSeq(parts, 1, Len(parts) - 1)
         IN  IF p = <<>> THEN ResolveFrom(rest, dir, acc)
             ELSE ResolveFrom(rest, dir, p \o Slash \o acc)

resolve(parts, dir) ==
    Slash \o normalizeString(ResolveFrom(parts, dir, <<>>), FALSE)

\* path.join(...parts)
join(parts) ==
    LET used == SelectSeq(parts, LAMBDA p : p # <<>>)
    IN  IF used = <<>> THEN Dot ELSE normalize(JoinWith(used, Slash))

-----------------------------------------------------------------------------
(* parsePathArg and parseUserDataDir. *)

\* a || b for strings: undefined and "" are falsy
StrOr(a, b) == IF Falsy(a) THEN b ELSE a

\* process: [platform, env, cwd]
\* relative arguments resolved against the working directory only
parsePathArg_cwdOnly(arg, process) ==
    IF Falsy(arg) THEN Undefined ELSE resolve(<<arg>>, process.cwd)

parsePathArg(arg, process) ==
    IF Falsy(arg) THEN Undefined
    ELSE LET resolved == resolve(<<arg>>, process.cwd)
         IN  IF normalize(arg) = resolved THEN resolved
             ELSE resolve(<<StrOr(process.env.VSCODE_CWD, process.cwd), arg>>,
                          process.cwd)

\* vs/base/node/paths getDefaultUserDataPath(platform): the platform's
\* default root of the user's state
getDefaultUserDataPath(pf) ==
    IF pf = "win32" THEN <<"/", "h", "/", "A", "p", "p", "D", "a", "t", "a">>
    ELSE <<"/", "h", "/", ".", "c", "o", "n", "f", "i", "g">>

parseUserDataDir(a, process) ==
    LET p == parsePathArg(a.user_data_dir, process)
    IN  IF Falsy(p) THEN resolve(<<getDefaultUserDataPath(process.platform)>>, process.cwd)
        ELSE p

-----------------------------------------------------------------------------
(* Package and product metadata, the home directory, the hash. *)

\* pkg.name, pkg.version, product.applicationName, product.dataFolderName,
\* product.commit
PkgName == <<"c", "o", "d", "e">>
PkgVersion == <<"1", ".", "0">>
ApplicationName == <<"c", "o", "d", "e">>
DataFolderName == <<".", "v", "s", "c", "o", "d", "e">>
Commit == <<"c", "0", "f", "f", "e", "e">>

\* os.homedir()
homedir == <<"/", "h">>

\* crypto.createHash('sha256').update(username).digest('hex').substr(0, 6)
Sha256Hex6(username) ==
    CASE username = <<"a", "l">> -> <<"6", "3", "5", "1", "8", "2">>
      [] username = <<"b", "o">> -> <<"3", "d", "0", "9", "9", "d">>

-----------------------------------------------------------------------------
(* The names of the IPC endpoints. *)

Dash == <<"-">>

getUniqueUserId(process) ==
    LET username == IF process.platform = "win32" THEN process.env.USERNAME
                    ELSE process.env.USER
    IN  IF Falsy(username) THEN <<>> ELSE Sha256Hex6(username)

\* a socket name that leaves the purpose out
getNixIPCHandle_untyped(userDataPath, type, process) ==
    IF ~Falsy(process.env.XDG_RUNTIME_DIR)
    THEN join(<<process.env.XDG_RUNTIME_DIR,
                PkgName \o Dash \o PkgVersion \o <<".", "s", "o", "c", "k">>>>)
    ELSE join(<<userDataPath, PkgVersion \o <<".", "s", "o", "c", "k">>>>)

getNixIPCHandle(userDataPath, type, process) ==
    IF ~Falsy(process.env.XDG_RUNTIME_DIR)
    THEN join(<<process.env.XDG_RUNTIME_DIR,
                PkgName \o Dash \o PkgVersion \o Dash \o type
                    \o <<".", "s", "o", "c", "k">>>>)
    ELSE join(<<userDataPath,
                PkgVersion \o Dash \o type \o <<".", "s", "o", "c", "k">>>>)

getWin32IPCHandle(type, process) ==
    LET userId == getUniqueUserId(process)
        name == ApplicationName \o (IF userId # <<>> THEN Dash \o userId ELSE <<>>)
    IN  <<"\\", "\\", ".", "\\", "p", "i", "p", "e", "\\">>
            \o name \o Dash \o PkgVersion \o Dash \o type
            \o <<"-", "s", "o", "c", "k">>

getIPCHandle(userDataPath, type, process) ==
    IF process.platform = "win32" THEN getWin32IPCHandle(type, process)
    ELSE getNixIPCHandle(userDataPath, type, process)

main == <<"m", "a", "i", "n">>
shared == <<"s", "h", "a", "r", "e", "d">>

-----------------------------------------------------------------------------
(* The memoized getters of EnvironmentService.  A getter takes the          *)
(* instance's cache c and arguments a and the process state, and returns    *)
(* the cache it leaves with the value it returns.                           *)

Memoized == {"userHome", "userDataPath", "appSettingsHome", "appSettingsPath",
             "appKeybindingsPath", "backupHome", "backupWorkspacesPath",
             "workspacesHome", "extensionsPath", "debugExtensionHost",
             "debugSearch", "profileStartup", "mainIPCHandle",
             "sharedIPCHandle", "nodeCachedDataDir"}

NotComputed == [has |-> FALSE, val |-> Undefined]
EmptyCache == [k \in Memoized |-> NotComputed]

\* vs/base/common/decorators memoize: the getter's body runs on the first
\* read of the instance's property, and its value is kept from then on.
\* Hit(c, key) is the read that finds the value in cache c; Keep(r, key)
\* keeps the result r of the body.
Hit(c, key) == [cache |-> c, value |-> c[key].val]

Keep(r, key) ==
    [cache |-> [r.cache EXCEPT ![key] = [has |-> TRUE, val |-> r.value]],
     value |-> r.value]

\* a getter's body that reads no other getter
Pure(c, v) == [cache |-> c, value |-> v]

userHome(c, a, process) ==
    IF c["userHome"].has THEN Hit(c, "userHome")
    ELSE Keep(Pure(c, homedir),
        "userHome")

userDataPath(c, a, process) ==
    IF c["userDataPath"].has THEN Hit(c, "userDataPath")
    ELSE Keep(Pure(c, parseUserDataDir(a, process)),
        "userDataPath")

appSettingsHome(c, a, process) ==
    IF c["appSettingsHome"].has THEN Hit(c, "appSettingsHome")
    ELSE Keep(LET u == userDataPath(c, a, process)
        IN  [cache |-> u.cache, value |-> join(<<u.value, <<"U", "s", "e", "r">>>>)],
        "appSettingsHome")

appSettingsPath(c, a, process) ==
    IF c["appSettingsPath"].has THEN Hit(c, "appSettingsPath")
    ELSE Keep(LET h == appSettingsHome(c, a, process)
        IN  [cache |-> h.cache,
             value |-> join(<<h.value, <<"s", "e", "t", "t", "i", "n", "g", "s",
                                         ".", "j", "s", "o", "n">>>>)],
        "appSettingsPath")

appKeybindingsPath(c, a, process) ==
    IF c["appKeybindingsPath"].has THEN Hit(c, "appKeybindingsPath")
    ELSE Keep(LET h == appSettingsHome(c, a, process)
        IN  [cache |-> h.cache,
             value |-> join(<<h.value, <<"k", "e", "y", "b", "i", "n", "d", "i",
                                         "n", "g", "s", ".", "j", "s", "o", "n">>>>)],
        "appKeybindingsPath")

\* backups kept under the home directory instead of the user data directory
backupHome_underHome(c, a, process) ==
    IF c["backupHome"].has THEN Hit(c, "backupHome")
    ELSE Keep(LET h == userHome(c, a, process)
        IN  [cache |-> h.cache,
             value |-> join(<<h.value, <<"B", "a", "c", "k", "u", "p", "s">>>>)],
        "backupHome")

backupHome(c, a, process) ==
    IF c["backupHome"].has THEN Hit(c, "backupHome")
    ELSE Keep(LET u == userDataPath(c, a, process)
        IN  [cache |-> u.cache,
             value |-> join(<<u.value, <<"B", "a", "c", "k", "u", "p", "s">>>>)],
        "backupHome")

backupWorkspacesPath(c, a, process) ==
    IF c["backupWorkspacesPath"].has THEN Hit(c, "backupWorkspacesPath")
    ELSE Keep(LET h == backupHome(c, a, process)
        IN  [cache |-> h.cache,
             value |-> join(<<h.value, <<"w", "o", "r", "k", "s", "p", "a", "c",
                                         "e", "s", ".", "j", "s", "o", "n">>>>)],
        "backupWorkspacesPath")

workspacesHome(c, a, process) ==
    IF c["workspacesHome"].has THEN Hit(c, "workspacesHome")
    ELSE Keep(LET u == userDataPath(c, a, process)
        IN  [cache |-> u.cache,
             value |-> join(<<u.value, <<"W", "o", "r", "k", "s", "p", "a", "c",
                                         "e", "s">>>>)],
        "workspacesHome")

extensionsPath(c, a, process) ==
    IF c["extensionsPath"].has THEN Hit(c, "extensionsPath")
    ELSE Keep(LET fromArg == parsePathArg(a.extensions_dir, process)
        IN  IF ~Falsy(fromArg) THEN Pure(c, fromArg)
            ELSE IF ~Falsy(process.env.VSCODE_EXTENSIONS)
            THEN Pure(c, process.env.VSCODE_EXTENSIONS)
            ELSE LET h == userHome(c, a, process)
                 IN  [cache |-> h.cache,
                      value |-> join(<<h.value, DataFolderName,
                                       <<"e", "x", "t", "e", "n", "s", "i", "o",
                                         "n", "s">>>>)],
        "extensionsPath")

\* not memoized: read from the environment on every access
isBuilt(process) == Falsy(process.env.VSCODE_DEV)

\* the getter without its @memoize: derived again on every read
debugExtensionHost_recomputed(c, a, process) ==
    Pure(c, parseExtensionHostPort(a, isBuilt(process)))

debugExtensionHost(c, a, process) ==
    IF c["debugExtensionHost"].has THEN Hit(c, "debugExtensionHost")
    ELSE Keep(Pure(c, parseExtensionHostPort(a, isBuilt(process))),
        "debugExtensionHost")

debugSearch(c, a, process) ==
    IF c["debugSearch"].has THEN Hit(c, "debugSearch")
    ELSE Keep(Pure(c, parseSearchPort(a, isBuilt(process))),
        "debugSearch")

profileStartup(c, a, process) ==
    IF c["profileStartup"].has THEN Hit(c, "profileStartup")
    ELSE Keep(IF a.prof_startup
        THEN Pure(c, [prefix |-> process.env.VSCODE_PROFILES_PREFIX, dir |-> homedir])
        ELSE Pure(c, Undefined),
        "profileStartup")

mainIPCHandle(c, a, process) ==
    IF c["mainIPCHandle"].has THEN Hit(c, "mainIPCHandle")
    ELSE Keep(LET u == userDataPath(c, a, process)
        IN  [cache |-> u.cache, value |-> getIPCHandle(u.value, main, process)],
        "mainIPCHandle")

sharedIPCHandle(c, a, process) ==
    IF c["sharedIPCHandle"].has THEN Hit(c, "sharedIPCHandle")
    ELSE Keep(LET u == userDataPath(c, a, process)
        IN  [cache |-> u.cache, value |-> getIPCHandle(u.value, shared, process)],
        "sharedIPCHandle")

\* the getter without its @memoize: derived again on every read
nodeCachedDataDir_recomputed(c, a, process) ==
    IF isBuilt(process)
    THEN LET u == userDataPath(c, a, process)
         IN  [cache |-> u.cache,
              value |-> join(<<u.value,
                               <<"C", "a", "c", "h", "e", "d", "D", "a", "t", "a">>,
                               Commit>>)]
    ELSE Pure(c, Undefined)

nodeCachedDataDir(c, a, process) ==
    IF c["nodeCachedDataDir"].has THEN Hit(c, "nodeCachedDataDir")
    ELSE Keep(IF isBuilt(process)
        THEN LET u == userDataPath(c, a, process)
             IN  [cache |-> u.cache,
                  value |-> join(<<u.value,
                                   <<"C", "a", "c", "h", "e", "d", "D", "a", "t", "a">>,
                                   Commit>>)]
        ELSE Pure(c, Undefined),
        "nodeCachedDataDir")

\* reading property key of the instance
Getter(key, c, a, process) ==
    CASE key = "userHome" -> userHome(c, a, process)
      [] key = "userDataPath" -> userDataPath(c, a, process)
      [] key = "appSettingsHome" -> appSettingsHome(c, a, process)
      [] key = "appSettingsPath" -> appSettingsPath(c, a, process)
      [] key = "appKeybindingsPath" -> appKeybindingsPath(c, a, process)
      [] key = "backupHome" -> backupHome(c, a, process)
      [] key = "backupWorkspacesPath" -> backupWorkspacesPath(c, a, process)
      [] key = "workspacesHome" -> workspacesHome(c, a, process)
      [] key = "extensionsPath" -> extensionsPath(c, a, process)
      [] key = "debugExtensionHost" -> debugExtensionHost(c, a, process)
      [] key = "debugSearch" -> debugSearch(c, a, process)
      [] key = "profileStartup" -> profileStartup(c, a, process)
      [] key = "mainIPCHandle" -> mainIPCHandle(c, a, process)
      [] key = "sharedIPCHandle" -> sharedIPCHandle(c, a, process)
      [] key = "nodeCachedDataDir" -> nodeCachedDataDir(c, a, process)

-----------------------------------------------------------------------------
(* The constructor: the machine identity is read from, or created in,       *)
(* {userDataPath}/machineid.                                                *)

MachineIdFile == <<"m", "a", "c", "h", "i", "n", "e", "i", "d">>

\* vs/base/common/uuid generateUuid(): a fresh identity token
Uuids == {<<"u", "1">>, <<"u", "2">>}

\* no such file
Missing == Undefined

\* new EnvironmentService(a, execPath) in a process, over the file system
\* fs whose reads fail under rFault and whose writes fail under wFault;
\* uuid is what generateUuid() returns if it is called
\* a constructor that never reads the file back: it generates and writes an
\* identity on every run
constructor_regenerate(a, process, fs, rFault, wFault, uuid) ==
    LET u == userDataPath(EmptyCache, a, process)
        machineIdPath == join(<<u.value, MachineIdFile>>)
    IN  [cache |-> u.cache, machineUUID |-> uuid,
         files |-> IF wFault THEN fs ELSE [fs EXCEPT ![machineIdPath] = uuid],
         status |-> "constructed",
         ctor |-> [path |-> machineIdPath, read |-> "failed",
                   write |-> IF wFault THEN "failed" ELSE "ok",
                   warned |-> wFault, process |-> process, intact |-> ~wFault]]

\* a constructor without the inner try/catch: a failed write escapes it and
\* the instance is never built
constructor_rethrow(a, process, fs, rFault, wFault, uuid) ==
    LET u == userDataPath(EmptyCache, a, process)
        machineIdPath == join(<<u.value, MachineIdFile>>)
        readOk == ~rFault /\ fs[machineIdPath] # Missing
    IN  IF readOk
        THEN [cache |-> u.cache, machineUUID |-> fs[machineIdPath], files |-> fs,
              status |-> "constructed",
              ctor |-> [path |-> machineIdPath, read |-> "ok", write |-> "none",
                        warned |-> FALSE, process |-> process, intact |-> TRUE]]
        ELSE [cache |-> u.cache,
              machineUUID |-> IF wFault THEN Undefined ELSE uuid,
              files |-> IF wFault THEN fs ELSE [fs EXCEPT ![machineIdPath] = uuid],
              status |-> IF wFault THEN "threw" ELSE "constructed",
              ctor |-> [path |-> machineIdPath, read |-> "failed",
                        write |-> IF wFault THEN "failed" ELSE "ok",
                        warned |-> FALSE, process |-> process,
                        intact |-> ~wFault]]

constructor(a, process, fs, rFault, wFault, uuid) ==
    LET u == userDataPath(EmptyCache, a, process)
        machineIdPath == join(<<u.value, MachineIdFile>>)
        readOk == ~rFault /\ fs[machineIdPath] # Missing
    IN  IF readOk
        THEN [cache |-> u.cache, machineUUID |-> fs[machineIdPath], files |-> fs,
              status |-> "constructed",
              ctor |-> [path |-> machineIdPath, read |-> "ok", write |-> "none",
                        warned |-> FALSE, process |-> process, intact |-> TRUE]]
        ELSE [cache |-> u.cache, machineUUID |-> uuid,
              files |-> IF wFault THEN fs ELSE [fs EXCEPT ![machineIdPath] = uuid],
              status |-> "constructed",
              ctor |-> [path |-> machineIdPath, read |-> "failed",
                        write |-> IF wFault THEN "failed" ELSE "ok",
                        warned |-> wFault, process |-> process,
                        intact |-> ~wFault]]

-----------------------------------------------------------------------------
(* The inputs of the model. *)

NoArgs ==
    [user_data_dir |-> Undefined, extensions_dir |-> Undefined,
     debugPluginHost |-> Undefined, debugBrkPluginHost |-> Undefined,
     debugId |-> Undefined, debugSearch |-> Undefined,
     debugBrkSearch |-> Undefined, prof_startup |-> FALSE]

\* command lines: none; relative directories and a debug port; an absolute
\* directory, a break port and unparsable ports
RelArgs ==
    [NoArgs EXCEPT !.user_data_dir = <<"d">>, !.extensions_dir = <<"x">>,
                   !.debugPluginHost = <<"5", "0">>, !.debugId = <<"i">>,
                   !.debugBrkSearch = <<"7">>, !.prof_startup = TRUE]

AbsArgs ==
    [NoArgs EXCEPT !.user_data_dir = <<"/", "d">>,
                   !.debugBrkPluginHost = <<"a">>, !.debugSearch = <<"0">>]

ArgSets == {NoArgs, RelArgs, AbsArgs}

Platforms == {"linux", "win32"}

Cwds == {<<"/", "c">>, <<"/", "w">>}

EnvValues ==
    [VSCODE_CWD |-> {Undefined, <<"/", "o">>},
     VSCODE_DEV |-> {Undefined, <<"1">>},
     XDG_RUNTIME_DIR |-> {Undefined, <<"/", "r">>},
     USER |-> {Undefined, <<"a", "l">>},
     USERNAME |-> {Undefined, <<"a", "l">>},
     VSCODE_EXTENSIONS |-> {Undefined, <<"/", "e">>},
     VSCODE_PROFILES_PREFIX |-> {Undefined, <<"p">>}]

EnvNames == DOMAIN EnvValues

\* the environments a process starts with: nothing set, everything set
EnvUnset == [v \in EnvNames |-> Undefined]
EnvSet == [v \in EnvNames |-> CHOOSE x \in EnvValues[v] : x # Undefined]

Proc == [platform |-> platform, env |-> env, cwd |-> cwd]

\* how a process is launched: its platform, command line and environment
Launches ==
    {[platform |-> "linux", args |-> NoArgs, env |-> EnvUnset],
     [platform |-> "linux", args |-> RelArgs, env |-> EnvSet],
     [platform |-> "win32", args |-> RelArgs, env |-> EnvUnset],
     [platform |-> "win32", args |-> AbsArgs, env |-> EnvSet]}

StartCwd == <<"/", "c">>

\* every place a machineid file can be at
IdPaths ==
    {join(<<parseUserDataDir(a, [platform |-> pf, env |-> [VSCODE_CWD |-> o],
                                 cwd |-> d]), MachineIdFile>>) :
        a \in ArgSets, pf \in Platforms, o \in EnvValues.VSCODE_CWD, d \in Cwds}

\* what something else can leave of a machineid file: no file, an empty one,
\* one that holds no identity
Contents == {Missing, <<>>, <<"?">>}

NoFiles == [p \in IdPaths |-> Missing]

NoProc == [platform |-> "none", env |-> <<>>, cwd |-> <<>>]
NoRead == [prop |-> "none", val |-> Undefined, repeat |-> FALSE, process |-> NoProc]
NoHistory == [k \in Memoized |-> NotComputed]
Idle == [fn |-> "none"]

\* the history of first reads after cache c became cache d, property key (if
\* any) having returned v; FirstProcs: the process state pr of those reads
FirstVals(fv, c, d, key, v) ==
    [k \in Memoized |->
        IF fv[k].has THEN fv[k]
        ELSE IF k = key THEN [has |-> TRUE, val |-> v]
        ELSE IF d[k].has THEN [has |-> TRUE, val |-> d[k].val]
        ELSE fv[k]]

FirstProcs(fp, fv, d, key, pr) ==
    [k \in Memoized |->
        IF fv[k].has THEN fp[k]
        ELSE IF k = key \/ d[k].has THEN pr
        ELSE fp[k]]

-----------------------------------------------------------------------------
(* The service within one process: Init is the state after construction.   *)

Init ==
    \E l \in Launches, uuid \in {<<"u", "1">>} :
        \E r \in {constructor(l.args, [platform |-> l.platform, env |-> l.env,
                                       cwd |-> StartCwd],
                              NoFiles, FALSE, FALSE, uuid)} :
            /\ platform = l.platform /\ env = l.env /\ cwd = StartCwd
            /\ readFault = FALSE /\ writeFault = FALSE
            /\ args = l.args
            /\ files = r.files
            /\ status = r.status
            /\ machineUUID = r.machineUUID
            /\ cache = r.cache
            /\ ctor = r.ctor
            /\ last = NoRead
            /\ runs = 1 /\ steps = 0
            /\ firstVal = FirstVals(NoHistory, EmptyCache, r.cache, "none", Undefined)
            /\ firstProc = FirstProcs([k \in Memoized |-> NoProc], NoHistory,
                                      r.cache, "none", r.ctor.process)
            /\ call = Idle /\ ret = Idle

\* reading a memoized property of the instance
Get(key) ==
    /\ status = "constructed"
    /\ steps < MaxSteps
    /\ \E r \in {Getter(key, cache, args, Proc)} :
           /\ cache' = r.cache
           /\ last' = [prop |-> key, val |-> r.value, repeat |-> firstVal[key].has,
                       process |-> Proc]
           /\ firstVal' = FirstVals(firstVal, cache, r.cache, key, r.value)
           /\ firstProc' = FirstProcs(firstProc, firstVal, r.cache, key, Proc)
    /\ steps' = steps + 1
    /\ UNCHANGED <<platform, env, cwd, files, readFault, writeFault, args, status,
                   machineUUID, runs, ctor, call, ret>>

\* reading isBuilt
GetIsBuilt ==
    /\ status = "constructed"
    /\ steps < MaxSteps
    /\ last' = [prop |-> "isBuilt", val |-> isBuilt(Proc), repeat |-> FALSE,
                process |-> Proc]
    /\ steps' = steps + 1
    /\ UNCHANGED <<platform, env, cwd, files, readFault, writeFault, args, status,
                   machineUUID, cache, runs, ctor, firstVal, firstProc,
                   call, ret>>

\* the process (or anything in it) sets or deletes an environment variable
SetEnv(name, value) ==
    /\ steps < MaxSteps
    /\ value # env[name]
    /\ env' = [env EXCEPT ![name] = value]
    /\ steps' = steps + 1
    /\ UNCHANGED <<platform, cwd, files, readFault, writeFault, args, status,
                   machineUUID, cache, last, runs, ctor, firstVal,
                   firstProc, call, ret>>

\* process.chdir(dir)
Chdir(dir) ==
    /\ steps < MaxSteps
    /\ dir # cwd
    /\ cwd' = dir
    /\ steps' = steps + 1
    /\ UNCHANGED <<platform, env, files, readFault, writeFault, args, status,
                   machineUUID, cache, last, runs, ctor, firstVal,
                   firstProc, call, ret>>

Next ==
    \/ \E key \in Memoized : Get(key)
    \/ GetIsBuilt
    \/ \E name \in EnvNames : \E value \in EnvValues[name] : SetEnv(name, value)
    \/ \E dir \in Cwds : Chdir(dir)

Spec == Init /\ [][Next]_vars

-----------------------------------------------------------------------------
(* Process runs over one file system: each run constructs the service.      *)
(* Between runs the machineid file may be deleted or overwritten, the       *)
(* storage may start or stop failing, and the working directory (or its     *)
(* override) may differ.                                                    *)

InitRuns ==
    \E l \in Launches :
        /\ platform = l.platform /\ env = l.env /\ cwd = StartCwd
        /\ readFault = FALSE /\ writeFault = FALSE
        /\ args = l.args
        /\ files = NoFiles
        /\ status = "none"
        /\ machineUUID = Undefined
        /\ cache = EmptyCache
        /\ ctor = [path |-> Undefined, read |-> "none", write |-> "none",
                   warned |-> FALSE, process |-> NoProc, intact |-> FALSE]
        /\ last = NoRead
        /\ runs = 0 /\ steps = 0
        /\ firstVal = NoHistory
        /\ firstProc = [k \in Memoized |-> NoProc]
        /\ call = Idle /\ ret = Idle

\* a process run: new EnvironmentService(args, execPath)
Construct ==
    /\ runs < MaxRuns
    /\ \E uuid \in Uuids :
         \E r \in {constructor(args, Proc, files, readFault, writeFault, uuid)} :
            /\ files' = r.files
            /\ status' = r.status
            /\ machineUUID' = r.machineUUID
            /\ cache' = r.cache
            /\ ctor' = r.ctor
            /\ firstVal' = FirstVals(NoHistory, EmptyCache, r.cache, "none", Undefined)
            /\ firstProc' = FirstProcs([k \in Memoized |-> NoProc], NoHistory,
                                       r.cache, "none", Proc)
    /\ last' = NoRead
    /\ runs' = runs + 1
    /\ UNCHANGED <<platform, env, cwd, readFault, writeFault, args, steps, call, ret>>

\* something else deletes (Missing) or overwrites the instance's machineid file
Tamper(content) ==
    /\ status = "constructed"
    /\ steps < MaxSteps
    /\ files[ctor.path] # content
    /\ files' = [files EXCEPT ![ctor.path] = content]
    /\ ctor' = [ctor EXCEPT !.intact = FALSE]
    /\ steps' = steps + 1
    /\ UNCHANGED <<platform, env, cwd, readFault, writeFault, args, status,
                   machineUUID, cache, last, runs, firstVal, firstProc, call, ret>>

\* the storage starts or stops failing reads, writes or both
SetFaults(r, w) ==
    /\ steps < MaxSteps
    /\ <<r, w>> # <<readFault, writeFault>>
    /\ readFault' = r /\ writeFault' = w
    /\ ctor' = [ctor EXCEPT !.intact = FALSE]
    /\ steps' = steps + 1
    /\ UNCHANGED <<platform, env, cwd, files, args, status, machineUUID, cache,
                   last, runs, firstVal, firstProc, call, ret>>

NextRuns ==
    \/ Construct
    \/ \E content \in Contents : Tamper(content)
    \/ \E r \in BOOLEAN, w \in BOOLEAN : SetFaults(r, w)
    \/ \E value \in EnvValues.VSCODE_CWD : SetEnv("VSCODE_CWD", value)
    \/ \E dir \in Cwds : Chdir(dir)

SpecRuns == InitRuns /\ [][NextRuns]_vars

-----------------------------------------------------------------------------
(* The properties of one instance (Spec).                                   *)

\* the value property key has when derived from scratch in process state pr
Derive(key, pr) == Getter(key, EmptyCache, args, pr).value

\* C4: every read of a memoized property returns what the first read of
\* that property returned, whatever happened to the environment variables
\* and the working directory in between.
C4_MemoStable ==
    last.prop \in Memoized =>
        /\ firstVal[last.prop].has
        /\ last.val = firstVal[last.prop].val

\* a property read again after the process state changed, where deriving it
\* again would have given another value
C4_Witness ==
    /\ last.prop \in Memoized
    /\ last.repeat
    /\ last.process # firstProc[last.prop]
    /\ Derive(last.prop, last.process) # last.val

Purposes == {main, shared}

\* C8: the handles of two different purposes differ, for the instance's user
\* data directory and whatever the process state; so the main and the shared
\* handle of one instance differ, even when first read in different states.
C8_HandlesDiffer ==
    /\ \A t1 \in Purposes, t2 \in Purposes :
          t1 # t2 =>
             getIPCHandle(cache["userDataPath"].val, t1, Proc)
               # getIPCHandle(cache["userDataPath"].val, t2, Proc)
    /\ (cache["mainIPCHandle"].has /\ cache["sharedIPCHandle"].has)
          => cache["mainIPCHandle"].val # cache["sharedIPCHandle"].val

\* both handles read, the second after the process state changed
C8_Witness ==
    /\ cache["mainIPCHandle"].has /\ cache["sharedIPCHandle"].has
    /\ firstProc["mainIPCHandle"] # firstProc["sharedIPCHandle"]
    /\ cache["mainIPCHandle"].val # cache["sharedIPCHandle"].val

\* path p lies below directory root
Below(p, root) ==
    /\ p # Undefined
    /\ Len(p) > Len(root)
    /\ SubSeq(p, 1, Len(root)) = root
    /\ (root = Slash \/ p[Len(root) + 1] = "/")

\* the path of relative segment rel joined onto directory root
Under(root, rel) == (IF root = Slash THEN Slash ELSE root \o Slash) \o rel

\* the fixed relative segment of each location kept in the user data directory
Segment ==
    [appSettingsHome |-> <<"U", "s", "e", "r">>,
     appSettingsPath |-> <<"U", "s", "e", "r", "/", "s", "e", "t", "t", "i", "n",
                           "g", "s", ".", "j", "s", "o", "n">>,
     appKeybindingsPath |-> <<"U", "s", "e", "r", "/", "k", "e", "y", "b", "i", "n",
                              "d", "i", "n", "g", "s", ".", "j", "s", "o", "n">>,
     backupHome |-> <<"B", "a", "c", "k", "u", "p", "s">>,
     backupWorkspacesPath |-> <<"B", "a", "c", "k", "u", "p", "s", "/", "w", "o",
                                "r", "k", "s", "p", "a", "c", "e", "s", ".", "j",
                                "s", "o", "n">>,
     workspacesHome |-> <<"W", "o", "r", "k", "s", "p", "a", "c", "e", "s">>]

\* the extensions path is the default one: neither --extensions-dir nor
\* VSCODE_EXTENSIONS was there when it was first read
DefaultExtensions ==
    /\ cache["extensionsPath"].has
    /\ Falsy(args.extensions_dir)
    /\ Falsy(firstProc["extensionsPath"].env.VSCODE_EXTENSIONS)

C10_AsStated ==
    /\ last.prop \in Memoized => last.val = Derive(last.prop, ctor.process)
    /\ last.prop = "isBuilt" => last.val = isBuilt(ctor.process)

\* C10, amended: a memoized property whose first read happened in the
\* process state of construction yields, at every read, the value derived
\* from the arguments and that state, whatever the environment and the
\* working directory became afterwards; isBuilt yields the value for the
\* environment at each read; userDataPath is derived at construction.
C10_FirstReadState ==
    /\ cache["userDataPath"].has
    /\ cache["userDataPath"].val = parseUserDataDir(args, ctor.process)
    /\ (last.prop \in Memoized /\ firstProc[last.prop] = ctor.process)
          => last.val = Derive(last.prop, ctor.process)
    /\ last.prop = "isBuilt" => last.val = isBuilt(last.process)

\* a property first read in the state of construction, read again after the
\* state changed so that deriving it then would give another value
C10_Witness ==
    /\ last.prop \in Memoized
    /\ last.repeat
    /\ firstProc[last.prop] = ctor.process
    /\ last.process # ctor.process
    /\ Derive(last.prop, last.process) # Derive(last.prop, ctor.process)
    /\ last.val = Derive(last.prop, ctor.process)

-----------------------------------------------------------------------------
(* The machine identity across process runs (SpecRuns).                     *)

\* a step that is a construction
IsConstruct == runs' = runs + 1

\* C1 as stated: once a construction has left the machineid file holding an
\* identity, a later construction against the same path, with nothing having
\* touched the file or the storage in between, sets machineUUID to the
\* file's content and writes nothing.
C1_AsStated ==
    [][(IsConstruct /\ ctor.intact /\ ctor'.path = ctor.path)
          => (machineUUID' = files[ctor.path] /\ files' = files)]_vars

\* C1, amended: the same, for a later construction whose storage does not
\* fail the read; it then sets machineUUID to the file's content, reads
\* successfully and performs no write.  A construction whose read fails
\* generates an identity and attempts to write it, whatever the file holds.
C1_ReuseWhenReadable ==
    [][/\ (IsConstruct /\ ctor.intact /\ ctor'.path = ctor.path /\ ~readFault)
            => /\ machineUUID' = files[ctor.path]
               /\ files' = files
               /\ ctor'.read = "ok" /\ ctor'.write = "none"
       /\ (IsConstruct /\ readFault)
            => /\ machineUUID' \in Uuids
               /\ ctor'.read = "failed" /\ ctor'.write # "none"
               /\ ~writeFault => files'[ctor'.path] = machineUUID']_vars

\* a second or later run has read back an identity that an earlier run wrote
C1_Witness ==
    /\ runs >= 2
    /\ ctor.read = "ok" /\ ctor.write = "none"
    /\ machineUUID \in Uuids
    /\ files[ctor.path] = machineUUID

\* C2: a construction whose read fails and whose write fails too does not
\* throw, sets machineUUID to the generated token, warns, and leaves the
\* file system as it was; machineUUID then never changes until the next
\* construction.
C2_BothFail ==
    [][/\ (IsConstruct /\ (readFault \/ files[ctor'.path] = Missing) /\ writeFault)
            => /\ status' = "constructed"
               /\ machineUUID' \in Uuids
               /\ files' = files
               /\ ctor'.read = "failed" /\ ctor'.write = "failed" /\ ctor'.warned
       /\ ~IsConstruct => machineUUID' = machineUUID]_vars

\* two runs in a row under the same failing storage: the second one generated
\* an identity again and the file is still missing
C2_Witness ==
    /\ runs >= 2
    /\ status = "constructed"
    /\ ctor.read = "failed" /\ ctor.write = "failed"
    /\ machineUUID \in Uuids
    /\ files[ctor.path] = Missing

\* C3 as stated: whatever the machineid file holds when a construction
\* starts (missing, empty, unparsable), machineUUID is a well-formed
\* identity token after it.
C3_AsStated == status = "constructed" => machineUUID \in Uuids

-----------------------------------------------------------------------------
(* Direct calls of parseDebugPort, parseExtensionHostPort and               *)
(* parseSearchPort, on every pair of arguments.                             *)

PortChars == {"0", "5", "a"}
PortArgs == {Undefined} \cup StringsUpTo(PortChars, MaxPortLen)
DefaultPorts == {ExtensionHostPort, 9229}

\* the service's variables while no service exists
NoService ==
    /\ platform = "linux" /\ env = EnvUnset /\ cwd = StartCwd
    /\ readFault = FALSE /\ writeFault = FALSE
    /\ args = NoArgs
    /\ files = NoFiles
    /\ status = "none"
    /\ machineUUID = Undefined
    /\ cache = EmptyCache
    /\ ctor = [path |-> Undefined, read |-> "none", write |-> "none",
               warned |-> FALSE, process |-> NoProc, intact |-> FALSE]
    /\ last = NoRead
    /\ runs = 0 /\ steps = 0
    /\ firstVal = NoHistory
    /\ firstProc = [k \in Memoized |-> NoProc]

service == <<platform, env, cwd, files, readFault, writeFault, args, status,
             machineUUID, cache, last, runs, steps, ctor, firstVal, firstProc>>

InitDebugPort ==
    /\ NoService
    /\ call \in [debugArg : PortArgs, debugBrkArg : PortArgs,
                 defaultBuildPort : DefaultPorts, isBuild : BOOLEAN,
                 debugId : {Undefined, <<"i">>}]
    /\ ret = Idle

CallParseDebugPort ==
    /\ ret = Idle
    /\ ret' = [fn |-> "parseDebugPort", default |-> call.defaultBuildPort,
               value |-> parseDebugPort(call.debugArg, call.debugBrkArg,
                                        call.defaultBuildPort, call.isBuild,
                                        call.debugId)]
    /\ UNCHANGED <<service, call>>

CallParseExtensionHostPort ==
    /\ ret = Idle
    /\ ret' = [fn |-> "parseExtensionHostPort", default |-> ExtensionHostPort,
               value |-> parseExtensionHostPort(
                             [NoArgs EXCEPT !.debugPluginHost = call.debugArg,
                                            !.debugBrkPluginHost = call.debugBrkArg,
                                            !.debugId = call.debugId],
                             call.isBuild)]
    /\ UNCHANGED <<service, call>>

CallParseSearchPort ==
    /\ ret = Idle
    /\ ret' = [fn |-> "parseSearchPort", default |-> SearchPort,
               value |-> parseSearchPort(
                             [NoArgs EXCEPT !.debugSearch = call.debugArg,
                                            !.debugBrkSearch = call.debugBrkArg],
                             call.isBuild)]
    /\ UNCHANGED <<service, call>>

NextDebugPort ==
    \/ CallParseDebugPort
    \/ CallParseExtensionHostPort
    \/ CallParseSearchPort

SpecDebugPort == InitDebugPort /\ [][NextDebugPort]_vars

-----------------------------------------------------------------------------
(* Direct calls of parsePathArg and parseUserDataDir, on every argument,    *)
(* working directory and override.                                          *)

PathChars == {"/", ".", "a"}
PathArgs == {Undefined} \cup StringsUpTo(PathChars, MaxPathLen)
\* VSCODE_CWD: unset, empty, absolute, relative, with a trailing separator
Overrides == {Undefined, <<>>, <<"/", "o">>, <<"o">>, <<"/", "o", "/">>}
\* process.cwd(): absolute and normalized
CwdInputs == {<<"/">>, <<"/", "c">>, <<"/", "c", "/", "a">>}

InitPathArg ==
    /\ platform = "linux"
    /\ env \in {[EnvUnset EXCEPT !.VSCODE_CWD = o] : o \in Overrides}
    /\ cwd \in CwdInputs
    /\ readFault = FALSE /\ writeFault = FALSE
    /\ args = NoArgs
    /\ files = NoFiles
    /\ status = "none"
    /\ machineUUID = Undefined
    /\ cache = EmptyCache
    /\ ctor = [path |-> Undefined, read |-> "none", write |-> "none",
               warned |-> FALSE, process |-> NoProc, intact |-> FALSE]
    /\ last = NoRead
    /\ runs = 0 /\ steps = 0
    /\ firstVal = NoHistory
    /\ firstProc = [k \in Memoized |-> NoProc]
    /\ call \in [arg : PathArgs]
    /\ ret = Idle

CallParsePathArg ==
    /\ ret = Idle
    /\ ret' = [fn |-> "parsePathArg", value |-> parsePathArg(call.arg, Proc)]
    /\ UNCHANGED <<service, call>>

CallParseUserDataDir ==
    /\ ret = Idle
    /\ ret' = [fn |-> "parseUserDataDir",
               value |-> parseUserDataDir([NoArgs EXCEPT !.user_data_dir = call.arg],
                                          Proc)]
    /\ UNCHANGED <<service, call>>

NextPathArg ==
    \/ CallParsePathArg
    \/ CallParseUserDataDir

SpecPathArg == InitPathArg /\ [][NextPathArg]_vars

-----------------------------------------------------------------------------
(* The debug ports (SpecDebugPort).                                         *)

IsInteger(s) ==
    /\ s # Undefined
    /\ s # <<>>
    /\ \A i \in 1..Len(s) : s[i] \in DOMAIN DigitValue

\* the port when no argument gives one
Fallback == IF call.isBuild THEN Null ELSE ret.default

\* C5 as stated: the port source is the break argument if present, else the
\* attach argument; a source that parses as an integer gives that integer;
\* otherwise the port is the default when not built and absent when built.
C5_AsStated ==
    ret # Idle =>
        LET source == IF call.debugBrkArg # Undefined THEN call.debugBrkArg
                      ELSE call.debugArg
        IN  ret.value.port = IF IsInteger(source) THEN DecimalValue(source)
                             ELSE Fallback

\* C5, amended: the port source is the break argument if present and not
\* empty, else the attach argument; a source that parses as an integer other
\* than zero gives that integer; otherwise (no source, not a number, or zero)
\* the port is the default when not built and absent when built.
C5_PortRule ==
    ret # Idle =>
        LET source == IF call.debugBrkArg # Undefined /\ call.debugBrkArg # <<>>
                      THEN call.debugBrkArg
                      ELSE call.debugArg
        IN  ret.value.port = IF IsInteger(source) /\ DecimalValue(source) # 0
                             THEN DecimalValue(source)
                             ELSE Fallback

\* both arguments numeric and different: the break argument gives the port
C5_Witness ==
    /\ ret # Idle
    /\ IsInteger(call.debugArg) /\ IsInteger(call.debugBrkArg)
    /\ DecimalValue(call.debugBrkArg) # DecimalValue(call.debugArg)
    /\ DecimalValue(call.debugBrkArg) # 0
    /\ ret.value.port = DecimalValue(call.debugBrkArg)

\* C6 as stated: the break flag is true exactly when a port was resolved and
\* the break argument was supplied.
C6_AsStated ==
    ret # Idle =>
        (ret.value.break
           <=> (ret.value.port # Null /\ call.debugBrkArg # Undefined))

\* C6, amended: the break flag is true exactly when a port was resolved and
\* the break argument was supplied with a non-empty value.
C6_BreakRule ==
    ret # Idle =>
        (ret.value.break
           <=> /\ ret.value.port # Null
               /\ call.debugBrkArg # Undefined
               /\ call.debugBrkArg # <<>>)

\* a port resolved from the attach argument alone, so no break; and one
\* resolved by default under a break argument that is no number, so break
C6_Witness ==
    /\ ret # Idle
    /\ \/ /\ call.debugBrkArg = Undefined /\ IsInteger(call.debugArg)
          /\ ret.value.port = DecimalValue(call.debugArg)
          /\ ~ret.value.break
       \/ /\ call.debugBrkArg = <<"a">> /\ ~call.isBuild
          /\ ret.value.port = ret.default
          /\ ret.value.break

-----------------------------------------------------------------------------
(* The path arguments (SpecPathArg).                                        *)

\* the directory reached from directory dir (a sequence of names) by the
\* segments segs
RECURSIVE Walk(_, _)
Walk(dir, segs) ==
    IF segs = <<>> THEN dir
    ELSE LET seg == Head(segs)
         IN  Walk(IF seg = <<>> \/ seg = Dot THEN dir
                  ELSE IF seg = DotDot
                       THEN (IF dir = <<>> THEN dir ELSE SubSeq(dir, 1, Len(dir) - 1))
                       ELSE Append(dir, seg),
                  Tail(segs))

\* the absolute path of p, from directory dir if p is relative
AbsoluteFrom(p, dir) ==
    Slash \o JoinWith(Walk(IF IsAbsolute(p) THEN <<>> ELSE dir, Split(p)), Slash)

\* the base directory: VSCODE_CWD if set, else the working directory
BaseDir ==
    LET wd == Walk(<<>>, Split(cwd))
    IN  IF env.VSCODE_CWD = Undefined THEN wd
        ELSE Walk(IF IsAbsolute(env.VSCODE_CWD) THEN <<>> ELSE wd,
                  Split(env.VSCODE_CWD))

\* C7 as stated: an absent argument gives absent; any other argument gives
\* an absolute path, that of the argument itself if it is absolute and
\* that of the argument from the base directory otherwise.
C7_AsStated ==
    ret # Idle /\ ret.fn = "parsePathArg" =>
        IF call.arg = Undefined THEN ret.value = Undefined
        ELSE /\ ret.value = AbsoluteFrom(call.arg, BaseDir)
             /\ IsAbsolute(ret.value)

\* C7, amended: an absent or empty argument gives absent; any other
\* argument gives an absolute path, that of the argument itself if it is
\* absolute (whatever the base directory) and that of the argument from
\* the base directory otherwise.  The user data directory is that path,
\* or the absolute default one without an argument.
C7_Resolution ==
    /\ ret # Idle /\ ret.fn = "parsePathArg" =>
          IF call.arg = Undefined \/ call.arg = <<>> THEN ret.value = Undefined
          ELSE /\ ret.value = AbsoluteFrom(call.arg, BaseDir)
               /\ IsAbsolute(ret.value)
               /\ IsAbsolute(call.arg) => ret.value = AbsoluteFrom(call.arg, <<>>)
    /\ ret # Idle /\ ret.fn = "parseUserDataDir" =>
          /\ IsAbsolute(ret.value)
          /\ ret.value = IF call.arg = Undefined \/ call.arg = <<>>
                         THEN getDefaultUserDataPath(platform)
                         ELSE AbsoluteFrom(call.arg, BaseDir)

\* a relative argument resolved against the override, to a path other than
\* the one the working directory would give
C7_Witness ==
    /\ ret # Idle /\ ret.fn = "parsePathArg"
    /\ call.arg # Undefined /\ call.arg # <<>> /\ ~IsAbsolute(call.arg)
    /\ ~Falsy(env.VSCODE_CWD)
    /\ ret.value = AbsoluteFrom(call.arg, BaseDir)
    /\ ret.value # AbsoluteFrom(call.arg, Walk(<<>>, Split(cwd)))

=============================================================================
